---- MODULE Spec2Model ----
(***************************************************************************)
(* Model of the Keymaps module (src/src/keymaps/index.js): the registry    *)
(* `keymaps` of id -> {id, keys, handler}, the handler list of the         *)
(* listening engine (keymaster) it binds dispatch callbacks into, the      *)
(* command registry the callbacks resolve string handlers through, and the *)
(* events triggered on the editor model `em`.                              *)
(***************************************************************************)
EXTENDS Naturals, Sequences, FiniteSets

\* ---------------------------------------------------------------- bounds
\* A command id is registered and then replaced at most MaxCmdVer - 1 times.
MaxCmdVer == 2

\* Calls with a re-entrant listener are made while the engine holds fewer
\* than MaxSubscriptions callbacks.
MaxSubscriptions == 2

\* Keymap ids, chord strings (opaque to this module), command ids, raw events.
Ids == {"a", "b"}
Keys == {"k1", "k2"}
CmdIds == {"cmd1"}
RawEvents == {"e1", "e2"}

\* The editor instance returned by em.getEditor().
Editor == "editor"

\* ---------------------------------------------------------------- values
\* JavaScript `undefined`.
undefined == [type |-> "undefined", ref |-> "", ver |-> 0]

\* Handler values: a command id (string), a function, an object with run().
StringHandler(c) == [type |-> "string", ref |-> c, ver |-> 0]
FunctionHandler == [type |-> "function", ref |-> "fn", ver |-> 0]
ObjectHandler == [type |-> "object", ref |-> "obj", ver |-> 0]
Handlers == {StringHandler(c) : c \in CmdIds} \cup {FunctionHandler, ObjectHandler}

\* The command object registered under c at version v of the registry entry.
Command(c, v) == [type |-> "object", ref |-> c, ver |-> v]

\* underscore's isString and the typeof operator, on the values above.
isString(h) == h.type = "string"
typeof(h) == h.type

\* The object literal { id, keys, handler } of add.
Keymap(id, k, h) == [id |-> id, keys |-> k, handler |-> h]

VARIABLES
  keymaps,        \* the registry object: a function from the ids present to keymaps
  subscriptions,  \* the engine's handler list: one entry per bound callback
  commands,       \* command registry: command id -> version (0: not registered)
  events,         \* the em.trigger calls of the last operation, in order
  config,         \* the module's config: undefined until init, then the merged options
  seen,           \* what the listener of each keymap:add / keymap:remove found
  last            \* the last operation, its arguments and its result

vars == <<keymaps, subscriptions, commands, config, events, seen, last>>

\* ------------------------------------------------------- collaborators
\* Commands.get(id): the registered command, or undefined.
cmdGet(cmds, c) == IF cmds[c] = 0 THEN undefined ELSE Command(c, cmds[c])

\* keymaster(keys, callback): appends the callback's entry to the handler list.
keymasterBind(subs, entry) == Append(subs, entry)

\* keymaster.unbind(keys): drops every callback bound to that chord string.
keymasterUnbind(subs, k) == SelectSeq(subs, LAMBDA s : s.keys # k)

\* em.trigger(name, ...args).
trigger(evs, e) == Append(evs, e)

\* An event: its name (name \o suffix) and its arguments, either (keymap) or
\* (id, shortcut, e).
KeymapEvent(name, keymap) ==
  [name |-> name, suffix |-> "", keymap |-> keymap,
   id |-> "", shortcut |-> "", e |-> ""]
EmitEvent(name, suffix, id, shortcut, e) ==
  [name |-> name, suffix |-> suffix, keymap |-> undefined,
   id |-> id, shortcut |-> shortcut, e |-> e]

\* ------------------------------------------------------------ the module
\* get(id)
get(km, id) == IF id \in DOMAIN km THEN km[id] ELSE undefined

\* What a listener of 'keymap:add' or 'keymap:remove' finds when the event is
\* delivered to it: get(keymap.id), whether the callback of keymap is bound to
\* its keys, and whether any callback is bound to those keys.
Seen(km, subs, keymap) ==
  [get |-> get(km, keymap.id),
   live |-> \E i \in DOMAIN subs : subs[i].keymap = keymap /\ subs[i].keys = keymap.keys,
   keysBound |-> \E i \in DOMAIN subs : subs[i].keys = keymap.keys]

\* remove without the keymaster.unbind call.
remove_noUnbind(st, id) ==
  LET keymap == get(st.keymaps, id)
      km == [i \in (DOMAIN st.keymaps) \ {id} |-> st.keymaps[i]]
  IN
  IF keymap # undefined
    THEN [keymaps |-> km,
          subscriptions |-> st.subscriptions,
          events |-> trigger(st.events, KeymapEvent("keymap:remove", keymap)),
          seen |-> Append(st.seen, Seen(km, st.subscriptions, keymap)),
          ret |-> keymap]
    ELSE [st EXCEPT !.ret = undefined]

\* remove triggering 'keymap:remove' outside the `if (keymap)` guard.
remove_triggerUnguarded(st, id) ==
  LET keymap == get(st.keymaps, id)
      km == [i \in (DOMAIN st.keymaps) \ {id} |-> st.keymaps[i]]
      subs == keymasterUnbind(st.subscriptions, keymap.keys)
  IN
  IF keymap # undefined
    THEN [keymaps |-> km,
          subscriptions |-> subs,
          events |-> trigger(st.events, KeymapEvent("keymap:remove", keymap)),
          seen |-> Append(st.seen, Seen(km, subs, keymap)),
          ret |-> keymap]
    ELSE [st EXCEPT !.ret = undefined,
                    !.events = trigger(st.events, KeymapEvent("keymap:remove", keymap)),
                    !.seen = Append(st.seen, [get |-> undefined, live |-> FALSE,
                                              keysBound |-> FALSE])]

\* remove triggering 'keymap:remove' before it deletes and unbinds.
remove_triggerFirst(st, id) ==
  LET keymap == get(st.keymaps, id)
      km == [i \in (DOMAIN st.keymaps) \ {id} |-> st.keymaps[i]]
      subs == keymasterUnbind(st.subscriptions, keymap.keys)
  IN
  IF keymap # undefined
    THEN [keymaps |-> km,
          subscriptions |-> subs,
          events |-> trigger(st.events, KeymapEvent("keymap:remove", keymap)),
          seen |-> Append(st.seen, Seen(st.keymaps, st.subscriptions, keymap)),
          ret |-> keymap]
    ELSE [st EXCEPT !.ret = undefined]

\* remove(id), as a transformer of st = [keymaps, subscriptions, events, seen,
\* ret]: the entry is deleted and its keys are unbound before the trigger.
remove(st, id) ==
  LET keymap == get(st.keymaps, id)
      km == [i \in (DOMAIN st.keymaps) \ {id} |-> st.keymaps[i]]
      subs == keymasterUnbind(st.subscriptions, keymap.keys)
  IN
  IF keymap # undefined
    THEN [keymaps |-> km,
          subscriptions |-> subs,
          events |-> trigger(st.events, KeymapEvent("keymap:remove", keymap)),
          seen |-> Append(st.seen, Seen(km, subs, keymap)),
          ret |-> keymap]
    ELSE [st EXCEPT !.ret = undefined]

\* The entry keymaster holds for the callback of add: the chord string it is
\* bound to and the callback's closure (keymap, and handler, which the
\* callback reassigns). fired and regAtAdd record the entry's history.
Entry(keymap, cmds) ==
  [keys |-> keymap.keys, keymap |-> keymap, handler |-> keymap.handler,
   fired |-> FALSE,
   regAtAdd |-> isString(keymap.handler) /\ cmds[keymap.handler.ref] # 0]

\* add without `pk && this.remove(id)`.
add_noRemove(st, cmds, id, k, handler) ==
  LET keymap == Keymap(id, k, handler)
      km == [i \in (DOMAIN st.keymaps) \cup {id} |->
               IF i = id THEN keymap ELSE st.keymaps[i]]
      subs == keymasterBind(st.subscriptions, Entry(keymap, cmds))
  IN [keymaps |-> km,
      subscriptions |-> subs,
      events |-> trigger(st.events, KeymapEvent("keymap:add", keymap)),
      seen |-> Append(st.seen, Seen(km, subs, keymap)),
      ret |-> keymap]

\* add storing `keymaps[id] = pk || keymap`.
add_keepPrevious(st, cmds, id, k, handler) ==
  LET keymap == Keymap(id, k, handler)
      pk == get(st.keymaps, id)
      s1 == IF pk # undefined THEN remove(st, id) ELSE st
      km == [i \in (DOMAIN s1.keymaps) \cup {id} |->
               IF i = id THEN (IF pk # undefined THEN pk ELSE keymap)
                         ELSE s1.keymaps[i]]
      subs == keymasterBind(s1.subscriptions, Entry(keymap, cmds))
  IN [keymaps |-> km,
      subscriptions |-> subs,
      events |-> trigger(s1.events, KeymapEvent("keymap:add", keymap)),
      seen |-> Append(s1.seen, Seen(km, subs, keymap)),
      ret |-> keymap]

\* add resolving a string handler through the command registry at bind time.
add_resolveAtBind(st, cmds, id, k, handler) ==
  LET keymap == Keymap(id, k, handler)
      pk == get(st.keymaps, id)
      s1 == IF pk # undefined THEN remove(st, id) ELSE st
      km == [i \in (DOMAIN s1.keymaps) \cup {id} |->
               IF i = id THEN keymap ELSE s1.keymaps[i]]
      resolved == IF isString(handler) THEN cmdGet(cmds, handler.ref) ELSE handler
      subs == keymasterBind(s1.subscriptions,
                            [Entry(keymap, cmds) EXCEPT !.handler = resolved])
  IN [keymaps |-> km,
      subscriptions |-> subs,
      events |-> trigger(s1.events, KeymapEvent("keymap:add", keymap)),
      seen |-> Append(s1.seen, Seen(km, subs, keymap)),
      ret |-> keymap]

\* add triggering 'keymap:add' before it removes the previous keymap.
add_triggerFirst(st, cmds, id, k, handler) ==
  LET keymap == Keymap(id, k, handler)
      pk == get(st.keymaps, id)
      s0 == [st EXCEPT !.events = trigger(st.events, KeymapEvent("keymap:add", keymap)),
                       !.seen = Append(st.seen, [get |-> undefined, live |-> FALSE,
                                              keysBound |-> FALSE])]
      s1 == IF pk # undefined THEN remove(s0, id) ELSE s0
      km == [i \in (DOMAIN s1.keymaps) \cup {id} |->
               IF i = id THEN keymap ELSE s1.keymaps[i]]
  IN [keymaps |-> km,
      subscriptions |-> keymasterBind(s1.subscriptions, Entry(keymap, cmds)),
      events |-> s1.events,
      seen |-> s1.seen,
      ret |-> keymap]

\* add(id, keys, handler): the keymap is stored and its callback bound before
\* the trigger.
add(st, cmds, id, k, handler) ==
  LET keymap == Keymap(id, k, handler)
      pk == get(st.keymaps, id)
      s1 == IF pk # undefined THEN remove(st, id) ELSE st
      km == [i \in (DOMAIN s1.keymaps) \cup {id} |->
               IF i = id THEN keymap ELSE s1.keymaps[i]]
      subs == keymasterBind(s1.subscriptions, Entry(keymap, cmds))
  IN [keymaps |-> km,
      subscriptions |-> subs,
      events |-> trigger(s1.events, KeymapEvent("keymap:add", keymap)),
      seen |-> Append(s1.seen, Seen(km, subs, keymap)),
      ret |-> keymap]

\* What a listener of 'keymap:remove' does when the event is delivered to it
\* inside add(id, ...): nothing, add(id, keys, handler) or remove(id).
NoListener == [op |-> "none", keys |-> "", handler |-> undefined]
AddListener(k, handler) == [op |-> "add", keys |-> k, handler |-> handler]
RemoveListener == [op |-> "remove", keys |-> "", handler |-> undefined]

\* The call the listener makes, on the state the trigger is reached in.
listen(st, cmds, id, listener) ==
  IF listener.op = "add" THEN add(st, cmds, id, listener.keys, listener.handler)
  ELSE IF listener.op = "remove" THEN remove(st, id)
  ELSE st

\* add(id, keys, handler) while a listener of 'keymap:remove' is registered on
\* em: em.trigger inside this.remove(id) runs the listener synchronously, then
\* add goes on with its own keymap.
addWithListener(st, cmds, id, k, handler, listener) ==
  LET keymap == Keymap(id, k, handler)
      pk == get(st.keymaps, id)
      s1 == IF pk # undefined THEN listen(remove(st, id), cmds, id, listener) ELSE st
      km == [i \in (DOMAIN s1.keymaps) \cup {id} |->
               IF i = id THEN keymap ELSE s1.keymaps[i]]
      subs == keymasterBind(s1.subscriptions, Entry(keymap, cmds))
  IN [keymaps |-> km,
      subscriptions |-> subs,
      events |-> trigger(s1.events, KeymapEvent("keymap:add", keymap)),
      seen |-> Append(s1.seen, Seen(km, subs, keymap)),
      ret |-> keymap]

\* The callback triggering the per-id event before the general one.
callback_swapped(s, cmds, e, ok) ==
  LET handler == IF isString(s.handler) THEN cmdGet(cmds, s.handler.ref) ELSE s.handler
      via == IF typeof(handler) = "object" THEN "run" ELSE "call"
      outcome == IF typeof(handler) = "undefined" THEN "TypeError"
                 ELSE IF ok THEN "returned" ELSE "threw"
      id == s.keymap.id
      e1 == trigger(<<>>, EmitEvent("keymap:emit:", id, id, s.keys, e))
      e2 == trigger(e1, EmitEvent("keymap:emit", "", id, s.keys, e))
  IN [handler |-> handler, via |-> via, outcome |-> outcome,
      events |-> IF outcome = "returned" THEN e2 ELSE <<>>]

\* The callback triggering both events before it resolves and invokes the handler.
callback_emitFirst(s, cmds, e, ok) ==
  LET handler == IF isString(s.handler) THEN cmdGet(cmds, s.handler.ref) ELSE s.handler
      via == IF typeof(handler) = "object" THEN "run" ELSE "call"
      outcome == IF typeof(handler) = "undefined" THEN "TypeError"
                 ELSE IF ok THEN "returned" ELSE "threw"
      id == s.keymap.id
      e1 == trigger(<<>>, EmitEvent("keymap:emit", "", id, s.keys, e))
      e2 == trigger(e1, EmitEvent("keymap:emit:", id, id, s.keys, e))
  IN [handler |-> handler, via |-> via, outcome |-> outcome, events |-> e2]

\* The dispatch callback (e, h) => {...} bound by add, run for entry s with
\* raw event e; ok says whether the invoked handler returns normally.
callback(s, cmds, e, ok) ==
  LET handler == IF isString(s.handler) THEN cmdGet(cmds, s.handler.ref) ELSE s.handler
      via == IF typeof(handler) = "object" THEN "run" ELSE "call"
      outcome == IF typeof(handler) = "undefined" THEN "TypeError"
                 ELSE IF ok THEN "returned" ELSE "threw"
      id == s.keymap.id
      e1 == trigger(<<>>, EmitEvent("keymap:emit", "", id, s.keys, e))
      e2 == trigger(e1, EmitEvent("keymap:emit:", id, id, s.keys, e))
  IN [handler |-> handler, via |-> via, outcome |-> outcome,
      events |-> IF outcome = "returned" THEN e2 ELSE <<>>]

\* configDef: the built-in defaults, in the order of the object literal. The
\* sign for the command key is written cmd here.
Default(id, k, handler) == [id |-> id, keys |-> k, handler |-> handler]
configDef ==
  [defaults |->
     <<Default("core:undo", "cmd+z, ctrl+z", StringHandler("core:undo")),
       Default("core:redo", "cmd+shift+z, ctrl+shift+z", StringHandler("core:redo")),
       Default("core:copy", "cmd+c, ctrl+c", StringHandler("core:copy")),
       Default("core:paste", "cmd+v, ctrl+v", StringHandler("core:paste"))>>]

\* The command ids the built-in defaults name.
DefaultCmdIds == {"core:undo", "core:redo", "core:copy", "core:paste"}

\* The editor model passed to init as opts.em.
Em == "em"

\* Options a caller passes to init: em alone, or em and a `defaults` mapping
\* (entries in iteration order).
CallerDefaults ==
  {<<>>,
   <<Default("core:undo", "ctrl+y", FunctionHandler)>>,
   <<Default("ns:my-keymap", "cmd+s, ctrl+s", ObjectHandler),
     Default("core:copy", "cmd+z, ctrl+z", FunctionHandler)>>}
Opts == {[em |-> Em]} \cup {[em |-> Em, defaults |-> d] : d \in CallerDefaults}

\* init with `config = { ...opts, ...configDef }`.
init_defaultsWin(opts) ==
  [k \in (DOMAIN configDef) \cup (DOMAIN opts) |->
     IF k \in DOMAIN configDef THEN configDef[k] ELSE opts[k]]

\* init(opts): config = { ...configDef, ...opts }
init(opts) ==
  [k \in (DOMAIN configDef) \cup (DOMAIN opts) |->
     IF k \in DOMAIN opts THEN opts[k] ELSE configDef[k]]

\* The loop of onLoad from the i-th entry of config.defaults on.
RECURSIVE loadFrom(_, _, _, _)
loadFrom(st, cmds, defKeys, i) ==
  IF i > Len(defKeys) THEN st
  ELSE loadFrom(add(st, cmds, defKeys[i].id, defKeys[i].keys, defKeys[i].handler),
                cmds, defKeys, i + 1)

\* onLoad returning from inside the loop, after the first add.
onLoad_returnInLoop(st, cmds, cfg) ==
  LET defKeys == cfg.defaults IN
  IF Len(defKeys) = 0 THEN st
  ELSE add(st, cmds, defKeys[1].id, defKeys[1].keys, defKeys[1].handler)

\* onLoad(): add for every entry of config.defaults.
onLoad(st, cmds, cfg) == loadFrom(st, cmds, cfg.defaults, 1)

\* ---------------------------------------------------------------- state
NoOp == [op |-> "none", id |-> "", keys |-> "", handler |-> undefined,
         ret |-> undefined, invoked |-> undefined, via |-> "", arg |-> "",
         outcome |-> "", first |-> FALSE, regAtAdd |-> FALSE, e |-> "",
         listener |-> NoListener, opts |-> [em |-> ""]]

St == [keymaps |-> keymaps, subscriptions |-> subscriptions,
       events |-> <<>>, seen |-> <<>>, ret |-> undefined]

Init ==
  /\ keymaps = [i \in {} |-> undefined]
  /\ subscriptions = <<>>
  /\ commands = [c \in CmdIds |-> 0]
  /\ config = init([em |-> Em])
  /\ events = <<>>
  /\ seen = <<>>
  /\ last = NoOp

\* A caller calls add(id, k, handler).
Add(id, k, handler) ==
  LET st == add(St, commands, id, k, handler) IN
  /\ keymaps' = st.keymaps
  /\ subscriptions' = st.subscriptions
  /\ events' = st.events
  /\ seen' = st.seen
  /\ last' = [NoOp EXCEPT !.op = "add", !.id = id, !.keys = k,
                          !.handler = handler, !.ret = st.ret]
  /\ UNCHANGED <<commands, config>>

\* A caller calls add(id, k, handler) over an existing keymap of id while a
\* listener of 'keymap:remove' is registered.
AddWithListener(id, k, handler, listener) ==
  LET st == addWithListener(St, commands, id, k, handler, listener) IN
  /\ id \in DOMAIN keymaps
  /\ Len(subscriptions) < MaxSubscriptions
  /\ keymaps' = st.keymaps
  /\ subscriptions' = st.subscriptions
  /\ events' = st.events
  /\ seen' = st.seen
  /\ last' = [NoOp EXCEPT !.op = "add", !.id = id, !.keys = k,
                          !.handler = handler, !.ret = st.ret,
                          !.listener = listener]
  /\ UNCHANGED <<commands, config>>

\* A caller calls remove(id).
Remove(id) ==
  LET st == remove(St, id) IN
  /\ keymaps' = st.keymaps
  /\ subscriptions' = st.subscriptions
  /\ events' = st.events
  /\ seen' = st.seen
  /\ last' = [NoOp EXCEPT !.op = "remove", !.id = id, !.ret = st.ret]
  /\ UNCHANGED <<commands, config>>

\* The callback writing the resolved handler into the stored keymap as well
\* (`keymap.handler = ...`).
Fire_writesKeymap(i, e, ok) ==
  LET s == subscriptions[i]
      r == callback(s, commands, e, ok)
      id == s.keymap.id IN
  /\ subscriptions' = [subscriptions EXCEPT ![i].handler = r.handler,
                                            ![i].fired = TRUE]
  /\ keymaps' = [j \in DOMAIN keymaps |->
                   IF j = id THEN [keymaps[j] EXCEPT !.handler = r.handler]
                             ELSE keymaps[j]]
  /\ events' = r.events
  /\ seen' = <<>>
  /\ last' = [NoOp EXCEPT !.op = "fire", !.id = id, !.keys = s.keys,
                          !.handler = s.keymap.handler,
                          !.invoked = r.handler, !.via = r.via,
                          !.arg = IF r.outcome = "TypeError" THEN "" ELSE Editor,
                          !.outcome = r.outcome, !.first = ~s.fired,
                          !.regAtAdd = s.regAtAdd, !.e = e]
  /\ UNCHANGED <<commands, config>>

\* The engine invokes the callback of its i-th entry for a key event e.
Fire(i, e, ok) ==
  LET s == subscriptions[i]
      r == callback(s, commands, e, ok) IN
  /\ subscriptions' = [subscriptions EXCEPT ![i].handler = r.handler,
                                            ![i].fired = TRUE]
  /\ events' = r.events
  /\ seen' = <<>>
  /\ last' = [NoOp EXCEPT !.op = "fire", !.id = s.keymap.id, !.keys = s.keys,
                          !.handler = s.keymap.handler,
                          !.invoked = r.handler, !.via = r.via,
                          !.arg = IF r.outcome = "TypeError" THEN "" ELSE Editor,
                          !.outcome = r.outcome, !.first = ~s.fired,
                          !.regAtAdd = s.regAtAdd, !.e = e]
  /\ UNCHANGED <<keymaps, commands, config>>

\* The host registers, or replaces, the command c in the command registry.
RegisterCommand(c) ==
  /\ commands[c] < MaxCmdVer
  /\ commands' = [commands EXCEPT ![c] = @ + 1]
  /\ events' = <<>>
  /\ seen' = <<>>
  /\ last' = [NoOp EXCEPT !.op = "register", !.id = c]
  /\ UNCHANGED <<keymaps, subscriptions, config>>

AddStep == \E id \in Ids, k \in Keys, handler \in Handlers : Add(id, k, handler)
RemoveStep == \E id \in Ids : Remove(id)
FireStep == \E i \in DOMAIN subscriptions, e \in RawEvents, ok \in BOOLEAN : Fire(i, e, ok)
RegisterStep == \E c \in CmdIds : RegisterCommand(c)

Next == AddStep \/ RemoveStep \/ FireStep \/ RegisterStep

Spec == Init /\ [][Next]_vars

\* Sequences of add calls only (with firings and command registrations).
NextAdd == AddStep \/ FireStep \/ RegisterStep

SpecAdd == Init /\ [][NextAdd]_vars

\* The module as its factory returns it: init has not run yet.
InitLoad ==
  /\ keymaps = [i \in {} |-> undefined]
  /\ subscriptions = <<>>
  /\ commands = [c \in DefaultCmdIds |-> 0]
  /\ config = undefined
  /\ events = <<>>
  /\ seen = <<>>
  /\ last = NoOp

\* The host calls init(opts).
InitModule(opts) ==
  /\ config' = init(opts)
  /\ events' = <<>>
  /\ seen' = <<>>
  /\ last' = [NoOp EXCEPT !.op = "init", !.opts = opts]
  /\ UNCHANGED <<keymaps, subscriptions, commands>>

\* The host calls onLoad(); before init, config.defaults raises a TypeError.
OnLoad ==
  IF config = undefined
    THEN /\ events' = <<>>
         /\ seen' = <<>>
         /\ last' = [NoOp EXCEPT !.op = "onLoad", !.outcome = "TypeError"]
         /\ UNCHANGED <<keymaps, subscriptions, commands, config>>
    ELSE LET st == onLoad(St, commands, config) IN
         /\ keymaps' = st.keymaps
         /\ subscriptions' = st.subscriptions
         /\ events' = st.events
         /\ seen' = st.seen
         /\ last' = [NoOp EXCEPT !.op = "onLoad", !.outcome = "returned"]
         /\ UNCHANGED <<commands, config>>

InitStep == \E opts \in Opts : InitModule(opts)
RemoveLoadedStep == \E id \in DOMAIN keymaps : Remove(id)

\* init, onLoad, then removals and firings of what was loaded.
NextLoad == InitStep \/ OnLoad \/ RemoveLoadedStep \/ FireStep

SpecLoad == InitLoad /\ [][NextLoad]_vars

\* add and remove, with listeners of 'keymap:remove' that call back
\* into add or remove of the id being superseded.
Listeners == {AddListener(k, h) : k \in Keys, h \in {FunctionHandler, ObjectHandler}}
               \cup {RemoveListener}
ListenerStep ==
  \E id \in Ids, k \in Keys, handler \in {FunctionHandler, ObjectHandler},
     listener \in Listeners : AddWithListener(id, k, handler, listener)

NextReentrant == AddStep \/ RemoveStep \/ ListenerStep

SpecReentrant == Init /\ [][NextReentrant]_vars

\* ---------------------------------------------------------------- claims
\* The engine entries whose callback dispatches for id.
SubsFor(subs, id) == {i \in DOMAIN subs : subs[i].keymap.id = id}

\* C1: in every reachable state the engine holds at most one callback that
\* dispatches for any given id.
C1_AtMostOneSubscription ==
  \A id \in Ids : Cardinality(SubsFor(subscriptions, id)) <= 1

\* A superseding add has just run and both ids have exactly one callback.
C1_Witness ==
  /\ last.op = "add" /\ Len(events) = 2
  /\ \A id \in Ids : Cardinality(SubsFor(subscriptions, id)) = 1

\* C2: over sequences of add calls, every keymap is stored under its own id,
\* add(id, k, h) leaves get(id) = {id, k, h}, and every step other than
\* add(id, ...) leaves get(id) as it was: get(id) is that of the latest add.
C2_LatestAddWins ==
  [][/\ \A id \in DOMAIN keymaps' : keymaps'[id].id = id
     /\ \A id \in Ids :
          IF last'.op = "add" /\ last'.id = id
            THEN get(keymaps', id) = Keymap(id, last'.keys, last'.handler)
            ELSE get(keymaps', id) = get(keymaps, id)]_vars

\* An add has replaced a different keymap of the same id.
C2_Witness ==
  /\ last.op = "add" /\ Len(events) = 2
  /\ events[1].keymap # events[2].keymap
  /\ get(keymaps, last.id) = Keymap(last.id, last.keys, last.handler)

\* C3 (as claimed): every keymap in the registry has a live engine callback,
\* bound to its keys, that dispatches for its id.
C3_EveryKeymapActive ==
  \A id \in DOMAIN keymaps :
    \E i \in DOMAIN subscriptions :
      /\ subscriptions[i].keys = keymaps[id].keys
      /\ subscriptions[i].keymap.id = id

\* C4 (as claimed): every firing of a keymap with a string handler invokes
\* what the command registry maps that string to at the time of the firing.
C4_ResolvedAtEveryFiring ==
  (last.op = "fire" /\ isString(last.handler))
    => last.invoked = cmdGet(commands, last.handler.ref)

\* C5: the first firing of a keymap added with a command id that was not
\* registered at add and is registered by the time of the firing runs the
\* registered command with the editor; it raises no TypeError, and when the
\* command returns both emit events follow.
C5_LazyResolution ==
  (/\ last.op = "fire" /\ isString(last.handler)
   /\ last.first /\ ~last.regAtAdd
   /\ commands[last.handler.ref] # 0)
    => /\ last.invoked = Command(last.handler.ref, commands[last.handler.ref])
       /\ last.via = "run" /\ last.arg = Editor
       /\ last.outcome # "TypeError"
       /\ (last.outcome = "returned" => Len(events) = 2)

\* Such a first firing has completed.
C5_Witness ==
  /\ last.op = "fire" /\ isString(last.handler)
  /\ last.first /\ ~last.regAtAdd
  /\ commands[last.handler.ref] # 0
  /\ last.outcome = "returned"


\* C6: add(x, k2, h2) over an existing keymap of x leaves get(x) = {x, k2, h2}
\* and exactly one engine callback dispatching for x: it is bound to k2 and
\* belongs to the new keymap, so none for x stays bound to another k1.
C6_Supersession ==
  [][\A x \in DOMAIN keymaps :
       (last'.op = "add" /\ last'.id = x) =>
         LET new == Keymap(x, last'.keys, last'.handler) IN
         /\ get(keymaps', x) = new
         /\ \E i \in DOMAIN subscriptions' :
              SubsFor(subscriptions', x) = {i}
         /\ \A i \in SubsFor(subscriptions', x) :
              /\ subscriptions'[i].keys = last'.keys
              /\ subscriptions'[i].keymap = new
              /\ subscriptions'[i].handler = last'.handler]_vars

\* An add has replaced a keymap of the same id bound to other keys.
C6_Witness ==
  /\ last.op = "add" /\ Len(events) = 2
  /\ events[1].keymap.keys # last.keys
  /\ \E i \in DOMAIN subscriptions :
       subscriptions[i].keymap.id = last.id /\ subscriptions[i].keys = last.keys

\* C7: remove(id) of an id that is not in the registry returns undefined,
\* leaves the registry and the engine as they are and triggers no event.
C7_RemoveMissingNoOp ==
  [][\A id \in Ids \ DOMAIN keymaps :
       (last'.op = "remove" /\ last'.id = id) =>
         /\ last'.ret = undefined
         /\ keymaps' = keymaps
         /\ subscriptions' = subscriptions
         /\ events' = <<>>]_vars

\* remove of a missing id has run while another keymap is bound.
C7_Witness ==
  /\ last.op = "remove" /\ last.ret = undefined
  /\ last.id \notin DOMAIN keymaps
  /\ subscriptions # <<>>

\* C8: remove(id) of a present id leaves the registry without id, and the
\* engine without any callback dispatching for id and without any callback
\* bound to the removed keys; so it is when the remove follows add(id, keys, h).
C8_RoundTrip ==
  [][\A id \in DOMAIN keymaps :
       (last'.op = "remove" /\ last'.id = id) =>
         /\ id \notin DOMAIN keymaps'
         /\ SubsFor(subscriptions', id) = {}
         /\ \A i \in DOMAIN subscriptions' :
              subscriptions'[i].keys # keymaps[id].keys
         /\ (last.op = "add" /\ last.id = id) =>
              \A i \in DOMAIN subscriptions' : subscriptions'[i].keys # last.keys]_vars

\* remove of a present id has run and left another keymap bound.
C8_Witness ==
  /\ last.op = "remove" /\ last.ret # undefined
  /\ last.id \notin DOMAIN keymaps
  /\ subscriptions # <<>>

\* The two events of a firing for id: the general one, then the per-id one.
EmitEvents(id, shortcut, e) ==
  <<EmitEvent("keymap:emit", "", id, shortcut, e),
    EmitEvent("keymap:emit:", id, id, shortcut, e)>>

\* C9 (as claimed): every firing triggers keymap:emit and then
\* keymap:emit:<id>, once each, with the payload (id, shortcut, e).
C9_EveryFiringEmits ==
  last.op = "fire" => events = EmitEvents(last.id, last.keys, last.e)

\* C9 (amended): every firing whose handler is found and returns normally
\* triggers keymap:emit and then keymap:emit:<id>, once each, with the
\* payload (id, shortcut, e); a firing that fails triggers neither.
C9_CompletedFiringEmits ==
  last.op = "fire" =>
    events = IF last.outcome = "returned"
               THEN EmitEvents(last.id, last.keys, last.e)
               ELSE <<>>

\* A firing of a keymap with a function handler has completed.
C9_Witness ==
  /\ last.op = "fire" /\ last.outcome = "returned"
  /\ Len(events) = 2
  /\ last.handler = FunctionHandler

\* C10: add triggers exactly one keymap:add, carrying the keymap it stores and
\* returns, preceded by one keymap:remove carrying the previous keymap when
\* the id was present and by nothing when it was not; remove of a present id
\* triggers exactly one keymap:remove carrying the keymap it returns.
C10_LifecycleEvents ==
  [][/\ last'.op = "add" =>
          LET id == last'.id
              new == Keymap(id, last'.keys, last'.handler) IN
          /\ last'.ret = new
          /\ get(keymaps', id) = new
          /\ events' = IF id \in DOMAIN keymaps
                         THEN <<KeymapEvent("keymap:remove", keymaps[id]),
                                KeymapEvent("keymap:add", new)>>
                         ELSE <<KeymapEvent("keymap:add", new)>>
     /\ (last'.op = "remove" /\ last'.id \in DOMAIN keymaps) =>
          /\ last'.ret = keymaps[last'.id]
          /\ events' = <<KeymapEvent("keymap:remove", keymaps[last'.id])>>]_vars

\* A superseding add has triggered keymap:remove and then keymap:add.
C10_Witness ==
  /\ last.op = "add" /\ Len(events) = 2
  /\ events[1].name = "keymap:remove" /\ events[2].name = "keymap:add"
  /\ events[2].keymap = last.ret

\* C12: get(id) changes only in a step that is add(id, ...) or remove(id):
\* firings, command registrations and calls on other ids leave it as it is,
\* so the handler of a stored keymap stays the value given to add.
C12_NoInPlaceMutation ==
  [][\A id \in Ids :
       get(keymaps', id) # get(keymaps, id) =>
         (last'.op \in {"add", "remove"} /\ last'.id = id)]_vars

\* A keymap with a string handler has fired more than once, its command was
\* run, and the stored handler is still the string.
C12_Witness ==
  /\ last.op = "fire" /\ ~last.first /\ last.outcome = "returned"
  /\ last.id \in DOMAIN keymaps
  /\ isString(keymaps[last.id].handler)
  /\ last.invoked # keymaps[last.id].handler

\* C13: every dispatch is for an id that is in the registry, by the callback
\* of the keymap stored under that id; what it invokes is the stored handler,
\* or for a stored string a command registered under that string.
C13_NoStaleHandler ==
  last.op = "fire" =>
    /\ last.id \in DOMAIN keymaps
    /\ keymaps[last.id] = Keymap(last.id, last.keys, last.handler)
    /\ last.outcome # "TypeError" =>
         LET stored == keymaps[last.id].handler IN
         IF isString(stored)
           THEN \E v \in 1..MaxCmdVer : last.invoked = Command(stored.ref, v)
           ELSE last.invoked = stored

\* A keymap has fired while both ids are bound to the same keys.
C13_Witness ==
  /\ last.op = "fire" /\ last.outcome = "returned"
  /\ DOMAIN keymaps = Ids
  /\ \A id \in Ids : keymaps[id].keys = last.keys
  /\ Len(subscriptions) = 2

\* C14 (as claimed): every firing that has a handler to invoke (a handler that
\* is not a string, or a string the command registry maps to a command at that
\* time) invokes it once with the editor: for a string the command the
\* registry maps it to, through run; an object through run; anything else by a
\* direct call; and events follow only an invocation that has returned.
C14_OneHandlerByKind ==
  (last.op = "fire" /\ (isString(last.handler) => commands[last.handler.ref] # 0)) =>
    /\ last.outcome # "TypeError"
    /\ last.arg = Editor
    /\ IF isString(last.handler)
         THEN last.invoked = cmdGet(commands, last.handler.ref) /\ last.via = "run"
         ELSE /\ last.invoked = last.handler
              /\ last.via = IF typeof(last.handler) = "object" THEN "run" ELSE "call"
    /\ events # <<>> => last.outcome = "returned"

\* What the engine holds of each entry: the chord string and the callback
\* (identified by the keymap of its add call).
Bound(subs) == [i \in DOMAIN subs |-> [keys |-> subs[i].keys, keymap |-> subs[i].keymap]]

\* C15: a firing that fails, by finding no command or by its handler throwing,
\* triggers no event and leaves the registry and the engine's bound callbacks
\* as they were.
C15_FailedFiringIntact ==
  [][(last'.op = "fire" /\ last'.outcome \in {"TypeError", "threw"}) =>
       /\ events' = <<>>
       /\ keymaps' = keymaps
       /\ Bound(subscriptions') = Bound(subscriptions)]_vars

\* A firing has found no command for its string handler.
C15_Witness ==
  /\ last.op = "fire" /\ last.outcome = "TypeError"
  /\ isString(last.handler) /\ commands[last.handler.ref] = 0
  /\ last.id \in DOMAIN keymaps /\ events = <<>>

\* C16: when 'keymap:add' is delivered for a keymap, get(id) is that keymap
\* and its callback is bound; when 'keymap:remove' is delivered, get(id) is
\* undefined and no callback is bound to the removed keys. This holds for
\* every such event of a call, the 'keymap:remove' inside a superseding add
\* included.
C16_EventsAfterChange ==
  last.op \in {"add", "remove"} =>
    /\ Len(seen) = Len(events)
    /\ \A i \in DOMAIN events :
         /\ events[i].name = "keymap:add" =>
              (seen[i].get = events[i].keymap /\ seen[i].live)
         /\ events[i].name = "keymap:remove" =>
              (seen[i].get = undefined /\ ~seen[i].keysBound)

\* A superseding add over the same keys has delivered both of its events.
C16_Witness ==
  /\ last.op = "add" /\ Len(events) = 2 /\ Len(seen) = 2
  /\ events[1].name = "keymap:remove" /\ events[1].keymap.keys = last.keys
  /\ seen[1].get = undefined /\ seen[2].live

\* C17 (as claimed): after a superseding add(id, ...) during which a listener
\* of 'keymap:remove' called add(id, ...) or remove(id), exactly one callback
\* dispatches for id and it is the callback of the keymap stored under id.
C17_ReentrantListenerSafe ==
  (last.op = "add" /\ last.listener # NoListener) =>
    /\ \E i \in DOMAIN subscriptions : SubsFor(subscriptions, last.id) = {i}
    /\ \A i \in SubsFor(subscriptions, last.id) :
         subscriptions[i].keymap = get(keymaps, last.id)

\* The defaults table of the specification (the command key written cmd).
DefaultsTable ==
  [id \in {"core:undo", "core:redo", "core:copy", "core:paste"} |->
     Keymap(id,
            CASE id = "core:undo" -> "cmd+z, ctrl+z"
              [] id = "core:redo" -> "cmd+shift+z, ctrl+shift+z"
              [] id = "core:copy" -> "cmd+c, ctrl+c"
              [] id = "core:paste" -> "cmd+v, ctrl+v",
            StringHandler(id))]

\* C11: onLoad right after init without a `defaults` option, on the module as
\* constructed, leaves exactly the four keymaps of the defaults table in the
\* registry, each with its callback bound to its keys, and has triggered four
\* 'keymap:add' events, one per keymap, and no other event.
C11_DefaultSeeding ==
  [][(/\ last.op = "init" /\ "defaults" \notin DOMAIN last.opts
      /\ DOMAIN keymaps = {} /\ subscriptions = <<>>
      /\ last'.op = "onLoad") =>
       /\ keymaps' = DefaultsTable
       /\ \A id \in DOMAIN DefaultsTable :
            \E i \in DOMAIN subscriptions' :
              /\ SubsFor(subscriptions', id) = {i}
              /\ subscriptions'[i].keys = DefaultsTable[id].keys
              /\ subscriptions'[i].keymap = DefaultsTable[id]
       /\ Len(events') = 4
       /\ \A i \in DOMAIN events' : events'[i].name = "keymap:add"
       /\ {events'[i].keymap : i \in DOMAIN events'}
            = {DefaultsTable[id] : id \in DOMAIN DefaultsTable}]_vars

\* onLoad has installed the four defaults.
C11_Witness ==
  /\ last.op = "onLoad" /\ last.outcome = "returned"
  /\ "core:undo" \in DOMAIN keymaps
  /\ keymaps["core:undo"].keys = "cmd+z, ctrl+z"
  /\ Cardinality(DOMAIN keymaps) = 4
  /\ Len(subscriptions) = 4 /\ Len(events) = 4

\* The 'keymap:add' events among evs, in order.
AddsOf(evs) == SelectSeq(evs, LAMBDA ev : ev.name = "keymap:add")

\* C18: init changes neither the registry nor the engine and triggers no
\* event, and makes config.defaults the caller's `defaults` option as a whole
\* when there is one and the built-in table otherwise; onLoad then calls add
\* once for each entry of config.defaults, in order.
C18_InitThenLoad ==
  [][/\ last'.op = "init" =>
          /\ keymaps' = keymaps /\ subscriptions' = subscriptions
          /\ events' = <<>>
          /\ config'.defaults = IF "defaults" \in DOMAIN last'.opts
                                  THEN last'.opts.defaults
                                  ELSE configDef.defaults
     /\ (last'.op = "onLoad" /\ config # undefined) =>
          AddsOf(events') =
            [i \in 1..Len(config.defaults) |->
               KeymapEvent("keymap:add",
                           Keymap(config.defaults[i].id, config.defaults[i].keys,
                                  config.defaults[i].handler))]]_vars

\* onLoad has installed a caller's `defaults` that names core:undo only: the
\* other built-in keymaps are not loaded.
C18_Witness ==
  /\ last.op = "onLoad" /\ last.outcome = "returned"
  /\ Len(config.defaults) = 1 /\ Len(events) = 1
  /\ DOMAIN keymaps = {"core:undo"}
  /\ keymaps["core:undo"].keys = "ctrl+y"

====
